---- MODULE Spec2Model ----
(***************************************************************************)
(* VocalFlow: the App component (src/App.tsx) as a state machine.          *)
(*                                                                         *)
(* React state and refs are the variables.  Every handler is one action:   *)
(* the handler's body, then the render it causes and the "Game Loop Logic" *)
(* effect (App.tsx 101-139), which React runs after a render whenever one  *)
(* of its dependencies changed, repeated until no dependency changes.      *)
(* State updates made in one handler are batched into one render.          *)
(*                                                                         *)
(* A frequency is represented by its pitch in cents, 100 * midiFloat       *)
(* (App.tsx 85), a monotone re-encoding of Hz: 6000 is MIDI 60 exactly,    *)
(* 6030 is MIDI 60 plus 30 cents.  autoCorrelate's -1 is NoPitch.          *)
(***************************************************************************)
EXTENDS Integers, Sequences, FiniteSets

\* ---------------------------------------------------------------- bounds
\* Size of the pool of requestAnimationFrame handles (at most MaxRaf - 1
\* callbacks are scheduled at once).
MaxRaf == 3
\* Start requests that may be awaiting getUserMedia at once.
MaxPendingStarts == 2
\* The tick counter of a session saturates here.
MaxTicks == 2
\* The count of capture streams that lost their reference saturates here.
MaxLeaked == 1
\* The longest sample buffer handed to autoCorrelate.
MaxBuffer == 5
\* The pitches (in cents) handed to the classifier alone.
MinPitch == 5940
MaxPitch == 6060

\* ------------------------------------------------------------- constants
null == 0
NoPitch == -1
\* 80 Hz and 1200 Hz (App.tsx 82) in cents: 1200*log2(f/440) + 6900 is
\* 3948.68 and 8636.95, so the pitches strictly inside the band are
\* 3949 .. 8636 cents.
LowBand == 3948
HighBand == 8637
FrameMs == 16

\* The melodies a file or the generator can deliver (Song.notes as the
\* sequence of Note.midi); the last one is the empty note list.
Melodies == << <<60, 60>>, <<62>>, <<>> >>
SongIds == 1..Len(Melodies)

\* What autoCorrelate can return for a buffer: NoPitch, an out-of-band
\* frequency, and in-band pitches (in cents).
Frequencies == {NoPitch, 3000, 6000, 6030, 6200}

VARIABLES
    song,              \* 0 (null) or the id of the loaded melody
    currentIndex,
    gameMode,          \* "EASY" | "HARD"
    isListening,
    completed,
    currentFreq,       \* 0 or the last in-band frequency (cents)
    centsOff,
    userMidi,          \* 0 (null) or the last pitch code
    isGenerating,
    error,             \* TRUE: an error message is shown; FALSE: null
    audioContextRef,   \* TRUE: an open AudioContext; FALSE: null
    analyserRef,       \* TRUE once an analyser was stored
    rafIdRef,          \* 0 (null) or the last handle requestAnimationFrame gave
    mediaStreamRef,    \* "null" | "live" | "stopped"
    matchDurationRef,
    rafQueue,          \* handles of the frame callbacks scheduled by the browser
    pendingLive,       \* starts awaiting getUserMedia whose ctx is the current context
    pendingStale,      \* starts awaiting getUserMedia whose ctx was closed meanwhile
    leakedStreams,     \* live capture streams no ref points to any more
    uploadPending,     \* a FileReader is reading a selected file
    ticks,             \* history: executions of detectPitch's body since the melody
                       \* was loaded or restarted (saturating at MaxTicks)
    buffer,            \* autoCorrelate's argument: the samples, in tenths
    sampleRate,        \* autoCorrelate's argument, in Hz
    frequency          \* autoCorrelate's return value, or Pending before the call

vars == << song, currentIndex, gameMode, isListening, completed, currentFreq,
           centsOff, userMidi, isGenerating, error, audioContextRef, analyserRef,
           rafIdRef, mediaStreamRef, matchDurationRef, rafQueue, pendingLive,
           pendingStale, leakedStreams, uploadPending, ticks,
           buffer, sampleRate, frequency >>

\* autoCorrelate has not returned yet.
Pending == << >>

Abs(x) == IF x < 0 THEN -x ELSE x
Max(a, b) == IF a >= b THEN a ELSE b
Min(a, b) == IF a <= b THEN a ELSE b

\* The current state as one record, and the step that installs a record
Cur ==
    [ song |-> song, currentIndex |-> currentIndex, gameMode |-> gameMode,
      isListening |-> isListening, completed |-> completed,
      currentFreq |-> currentFreq, centsOff |-> centsOff, userMidi |-> userMidi,
      isGenerating |-> isGenerating, error |-> error,
      audioContextRef |-> audioContextRef, analyserRef |-> analyserRef,
      rafIdRef |-> rafIdRef, mediaStreamRef |-> mediaStreamRef,
      matchDurationRef |-> matchDurationRef, rafQueue |-> rafQueue,
      pendingLive |-> pendingLive, pendingStale |-> pendingStale,
      leakedStreams |-> leakedStreams, uploadPending |-> uploadPending,
      ticks |-> ticks ]

\* (s is bound once, so that the record is computed once per step).
Commit(next) ==
  \E s \in {next} :
    /\ song' = s.song
    /\ currentIndex' = s.currentIndex
    /\ gameMode' = s.gameMode
    /\ isListening' = s.isListening
    /\ completed' = s.completed
    /\ currentFreq' = s.currentFreq
    /\ centsOff' = s.centsOff
    /\ userMidi' = s.userMidi
    /\ isGenerating' = s.isGenerating
    /\ error' = s.error
    /\ audioContextRef' = s.audioContextRef
    /\ analyserRef' = s.analyserRef
    /\ rafIdRef' = s.rafIdRef
    /\ mediaStreamRef' = s.mediaStreamRef
    /\ matchDurationRef' = s.matchDurationRef
    /\ rafQueue' = s.rafQueue
    /\ pendingLive' = s.pendingLive
    /\ pendingStale' = s.pendingStale
    /\ leakedStreams' = s.leakedStreams
    /\ uploadPending' = s.uploadPending
    /\ ticks' = s.ticks
    /\ UNCHANGED << buffer, sampleRate, frequency >>

\* --------------------------------------------------------- pitch classifier
\* A faulty variant of the rounding, which rounds halves down.
MidiNoteHalfDown(f) == (f + 49) \div 100

\* Math.round of a pitch in cents to a pitch code (halves round up).
MidiNote(f) == (f + 50) \div 100
Cents(f) == f - 100 * MidiNote(f)
InBand(f) == f > LowBand /\ f < HighBand

\* ------------------------------------------------------------ autoCorrelate
\* Samples are integers in tenths (10 is the sample 1.0), so a sum of
\* products of two samples is in hundredths.  A returned number is the
\* fraction << num, den >>; den = 0 stands for Infinity, -Infinity or NaN.
\* Reading an array outside 0 .. length-1 gives undefined, a comparison
\* with undefined is false and arithmetic on it gives NaN.
SampleUnit == 10
At(a, i) == a[i + 1]
Defined(a, i) == 0 <= i /\ i < Len(a)
Least(S) == CHOOSE x \in S : \A y \in S : x <= y

RECURSIVE SumSquares(_, _)
SumSquares(buf, n) ==
    IF n = 0 THEN 0 ELSE SumSquares(buf, n - 1) + buf[n] * buf[n]

\* rms < 0.01, with rms = sqrt(sum of squares / SIZE)
RmsBelowFloor(buf) ==
    10000 * SumSquares(buf, Len(buf)) < SampleUnit * SampleUnit * Len(buf)

\* Math.abs(v) < thres, thres = 0.2
BelowThres(v) == 5 * Abs(v) < SampleUnit

TrimStart(buf) ==
    LET hits == { i \in 0..(Len(buf) - 1) :
                    2 * i < Len(buf) /\ BelowThres(At(buf, i)) }
    IN  IF hits = {} THEN 0 ELSE Least(hits)

TrimEnd(buf) ==
    LET hits == { i \in 1..Len(buf) :
                    2 * i < Len(buf) /\ BelowThres(At(buf, Len(buf) - i)) }
    IN  IF hits = {} THEN Len(buf) - 1 ELSE Len(buf) - Least(hits)

Slice(buf, r1, r2) ==
    IF r2 <= r1 THEN << >> ELSE [ k \in 1..(r2 - r1) |-> buf[r1 + k] ]

\* c[i], the sum over j = 0 .. n-1-i of buf2[j] * buf2[j+i]; here j counts
\* the terms still to add.
RECURSIVE LagSum(_, _, _)
LagSum(buf2, i, j) ==
    IF j = 0 THEN 0
    ELSE LagSum(buf2, i, j - 1) + At(buf2, j - 1) * At(buf2, j - 1 + i)

Correlation(buf2) ==
    [ k \in 1..Len(buf2) |-> LagSum(buf2, k - 1, Len(buf2) - (k - 1)) ]

\* while (c[d] > c[d + 1]) d++
RECURSIVE Decline(_, _)
Decline(c, d) ==
    IF Defined(c, d) /\ Defined(c, d + 1) /\ At(c, d) > At(c, d + 1)
    THEN Decline(c, d + 1)
    ELSE d

\* The first lag from d on with the largest c above maxval's start of -1,
\* or -1 when there is none.
MaxPos(c, d) ==
    LET above == { i \in d..(Len(c) - 1) :
                     At(c, i) > (-1) * SampleUnit * SampleUnit }
        best  == { i \in above : \A k \in above : At(c, k) <= At(c, i) }
    IN  IF above = {} THEN -1 ELSE Least(best)

\* The parabolic interpolation and the final division sampleRate / T0.
Interpolated(c, T0, rate) ==
    IF Defined(c, T0 - 1) /\ Defined(c, T0) /\ Defined(c, T0 + 1)
    THEN LET x1 == At(c, T0 - 1)
             x2 == At(c, T0)
             x3 == At(c, T0 + 1)
             twoA == x1 + x3 - 2 * x2
             twoB == x3 - x1
         IN  IF twoA # 0
             THEN << rate * 2 * twoA, 2 * twoA * T0 - twoB >>
             ELSE << rate, T0 >>
    ELSE << rate, T0 >>

autoCorrelate(buf, rate) ==
    IF RmsBelowFloor(buf) THEN << NoPitch, 1 >>
    ELSE LET buf2 == Slice(buf, TrimStart(buf), TrimEnd(buf))
             c    == Correlation(buf2)
         IN  Interpolated(c, MaxPos(c, Decline(c, 0)), rate)

\* ------------------------------------------------------------- difficulty
Tolerance(mode) == IF mode = "EASY" THEN 50 ELSE 25
RequiredHoldTime(mode) == IF mode = "EASY" THEN 20 ELSE 80

\* ---------------------------------------------------------- stopListening
StopListening(s) ==
    [ s EXCEPT
        !.rafQueue = IF s.rafIdRef # null THEN @ \ {s.rafIdRef} ELSE @,
        !.mediaStreamRef = IF @ # "null" THEN "stopped" ELSE @,
        !.audioContextRef = FALSE,
        !.pendingStale = IF s.audioContextRef THEN @ + s.pendingLive ELSE @,
        !.pendingLive = IF s.audioContextRef THEN 0 ELSE @,
        !.isListening = FALSE,
        !.currentFreq = 0 ]

\* ------------------------------------------------------- Game Loop effect
Target(s) == Melodies[s.song][s.currentIndex + 1]

\* A faulty variant of the matcher's step, whose decay is not clamped at 0.
MatchStepUnclamped(s) ==
    LET noteMatch == s.userMidi = Target(s)
        isTuneOkay == Abs(s.centsOff) <= Tolerance(s.gameMode)
    IN  IF noteMatch /\ isTuneOkay
        THEN s.matchDurationRef + FrameMs
        ELSE s.matchDurationRef - FrameMs

MatchStep(s) ==
    LET noteMatch == s.userMidi = Target(s)
        isTuneOkay == Abs(s.centsOff) <= Tolerance(s.gameMode)
    IN  IF noteMatch /\ isTuneOkay
        THEN s.matchDurationRef + FrameMs
        ELSE Max(0, s.matchDurationRef - FrameMs)

Advance(s) ==
    IF s.currentIndex < Len(Melodies[s.song]) - 1
    THEN [s EXCEPT !.matchDurationRef = 0, !.currentIndex = @ + 1]
    ELSE StopListening([s EXCEPT !.matchDurationRef = 0, !.completed = TRUE])

\* A faulty variant of the effect's guard, without its test of completed:
\* with it a step taken while completed and listening runs the matcher.
EffectSkipsIgnoringCompleted(s) ==
    \/ s.song = null
    \/ ~s.isListening
    \/ s.userMidi = null
    \/ s.currentIndex >= Len(Melodies[s.song])

EffectSkips(s) ==
    \/ s.song = null
    \/ s.completed
    \/ ~s.isListening
    \/ s.userMidi = null
    \/ s.currentIndex >= Len(Melodies[s.song])

Effect(s) ==
    IF EffectSkips(s) THEN s
    ELSE IF MatchStep(s) > RequiredHoldTime(s.gameMode)
         THEN Advance(s)
         ELSE [s EXCEPT !.matchDurationRef = MatchStep(s)]

\* The effect's dependency array; a new song object always differs.
Deps(s) == << s.currentFreq, s.userMidi, s.centsOff, s.currentIndex, s.song,
              s.gameMode, s.isListening, s.completed >>

RECURSIVE Settle(_)
Settle(s) ==
    LET t == Effect(s)
    IN  IF Deps(t) # Deps(s) THEN Settle(t) ELSE t

Render(old, new) == IF Deps(new) # Deps(old) THEN Settle(new) ELSE new

\* ------------------------------------------------------------ detectPitch
FreshHandle(s) == CHOOSE h \in 1..MaxRaf :
                    /\ h \notin s.rafQueue
                    /\ \A g \in 1..MaxRaf : g \notin s.rafQueue => h <= g

DetectRuns(s) == s.analyserRef /\ s.audioContextRef

Observe(s, f) ==
    IF InBand(f)
    THEN [s EXCEPT !.currentFreq = f, !.userMidi = MidiNote(f), !.centsOff = Cents(f)]
    ELSE [s EXCEPT !.currentFreq = 0, !.userMidi = null]

\* h is the handle the trailing requestAnimationFrame returns.
DetectPitch(s, f, h) ==
    IF ~DetectRuns(s) THEN s
    ELSE [ Observe(s, f) EXCEPT
             !.rafIdRef = h,
             !.rafQueue = @ \cup {h},
             !.ticks = Min(@ + 1, MaxTicks) ]

\* ---------------------------------------------------------- startListening
\* Up to the await of getUserMedia.
StartListeningBegin(s) ==
    [ s EXCEPT !.audioContextRef = TRUE, !.pendingLive = @ + 1 ]

\* After getUserMedia resolved; stale: this call's ctx was closed by a stop
\* while it waited.
StartListeningRest(s, stale, f) ==
    LET s1 == [ s EXCEPT
                  !.pendingLive = IF stale THEN @ ELSE @ - 1,
                  !.pendingStale = IF stale THEN @ - 1 ELSE @,
                  !.leakedStreams = IF s.mediaStreamRef = "live"
                                    THEN Min(@ + 1, MaxLeaked) ELSE @,
                  !.mediaStreamRef = "live" ]
        s2 == [ s1 EXCEPT !.analyserRef = TRUE, !.isListening = TRUE ]
    IN  DetectPitch(s2, f, FreshHandle(s))

\* createMediaStreamSource on a closed context throws in some browsers.
StartListeningThrows(s) ==
    [ s EXCEPT
        !.pendingStale = @ - 1,
        !.leakedStreams = IF s.mediaStreamRef = "live"
                          THEN Min(@ + 1, MaxLeaked) ELSE @,
        !.mediaStreamRef = "live",
        !.error = TRUE ]

\* ---------------------------------------------------------------- restart
RestartBody(s) ==
    LET r == [ s EXCEPT !.currentIndex = 0, !.completed = FALSE,
                        !.matchDurationRef = 0, !.ticks = 0 ]
    IN  IF ~s.isListening THEN StartListeningBegin(r) ELSE r

\* ------------------------------------------------------- melody ingestion
LoadSong(s, m) ==
    [ s EXCEPT !.song = m, !.currentIndex = 0, !.completed = FALSE, !.ticks = 0 ]

\* ================================================================ actions
Init ==
    /\ song = null
    /\ currentIndex = 0
    /\ gameMode = "EASY"
    /\ isListening = FALSE
    /\ completed = FALSE
    /\ currentFreq = 0
    /\ centsOff = 0
    /\ userMidi = null
    /\ isGenerating = FALSE
    /\ error = FALSE
    /\ audioContextRef = FALSE
    /\ analyserRef = FALSE
    /\ rafIdRef = null
    /\ mediaStreamRef = "null"
    /\ matchDurationRef = 0
    /\ rafQueue = {}
    /\ pendingLive = 0
    /\ pendingStale = 0
    /\ leakedStreams = 0
    /\ uploadPending = FALSE
    /\ ticks = 0
    /\ buffer = << >>
    /\ sampleRate = 0
    /\ frequency = Pending

\* A scheduled frame callback fires and detectPitch reads a buffer whose
\* autoCorrelate result is f.
RafFire(h, f) ==
    /\ h \in rafQueue
    /\ DetectRuns(Cur)
    /\ Commit(Render(Cur,
          DetectPitch([Cur EXCEPT !.rafQueue = @ \ {h}], f, FreshHandle(Cur))))

\* A scheduled frame callback fires and detectPitch returns at once (no
\* analyser or no audio context); the callback is not scheduled again.
RafFireIdle(h) ==
    /\ h \in rafQueue
    /\ ~DetectRuns(Cur)
    /\ Commit(Render(Cur,
          DetectPitch([Cur EXCEPT !.rafQueue = @ \ {h}], NoPitch, FreshHandle(Cur))))

\* "Start Singing".
ClickStart ==
    /\ song # null /\ ~isListening /\ ~completed
    /\ pendingLive + pendingStale < MaxPendingStarts
    /\ Commit(Render(Cur, StartListeningBegin(Cur)))

\* getUserMedia resolves for a start whose context is still the current one.
StartResolve(f) ==
    /\ pendingLive > 0
    /\ Cardinality(rafQueue) < MaxRaf - 1
    /\ Commit(Render(Cur, StartListeningRest(Cur, FALSE, f)))

\* getUserMedia resolves for a start whose context was closed meanwhile,
\* while a newer context exists: detectPitch runs.
StartResolveStale(f) ==
    /\ pendingStale > 0
    /\ audioContextRef
    /\ Cardinality(rafQueue) < MaxRaf - 1
    /\ Commit(Render(Cur, StartListeningRest(Cur, TRUE, f)))

\* The same while audioContextRef is null: detectPitch returns at once.
StartResolveStaleIdle ==
    /\ pendingStale > 0
    /\ ~audioContextRef
    /\ Commit(Render(Cur, StartListeningRest(Cur, TRUE, NoPitch)))

\* The same when createMediaStreamSource throws on the closed context.
StartResolveStaleThrows ==
    /\ pendingStale > 0
    /\ Commit(Render(Cur, StartListeningThrows(Cur)))

\* getUserMedia rejects.
StartReject ==
    /\ pendingLive + pendingStale > 0
    /\ \E stale \in BOOLEAN :
         /\ IF stale THEN pendingStale > 0 ELSE pendingLive > 0
         /\ Commit(Render(Cur,
              [ Cur EXCEPT
                  !.pendingLive = IF stale THEN @ ELSE @ - 1,
                  !.pendingStale = IF stale THEN @ - 1 ELSE @,
                  !.error = TRUE ]))

\* "Stop".
ClickStop ==
    /\ song # null /\ isListening
    /\ Commit(Render(Cur, StopListening(Cur)))

\* The mode button.
ToggleMode ==
    /\ gameMode \in {"EASY", "HARD"}
    /\ Commit(Render(Cur,
        [Cur EXCEPT !.gameMode = IF @ = "EASY" THEN "HARD" ELSE "EASY"]))

\* "Sing Again".
Restart ==
    /\ song # null /\ completed
    /\ isListening \/ pendingLive + pendingStale < MaxPendingStarts
    /\ Commit(Render(Cur, RestartBody(Cur)))

\* "Change Song".
ChangeSong ==
    /\ song # null
    /\ Commit(Render(Cur, [Cur EXCEPT !.song = null]))

\* A file is selected: handleFileUpload up to readAsText.  One ingestion
\* (file read or generation) is in flight at a time.
SelectFile ==
    /\ song = null /\ ~uploadPending /\ ~isGenerating
    /\ Commit([Cur EXCEPT !.uploadPending = TRUE])

\* reader.onload with notes.
FileLoaded(m) ==
    /\ uploadPending
    /\ Len(Melodies[m]) > 0
    /\ Commit(Settle([ LoadSong(Cur, m) EXCEPT !.error = FALSE,
                                                !.uploadPending = FALSE ]))

\* reader.onload without notes, or parseMusicXML throws.
FileRejected ==
    /\ uploadPending
    /\ Commit([Cur EXCEPT !.error = TRUE, !.uploadPending = FALSE])

\* "Go": handleGenerate up to the await.
ClickGenerate ==
    /\ song = null /\ ~isGenerating /\ ~uploadPending
    /\ Commit([Cur EXCEPT !.isGenerating = TRUE, !.error = FALSE])

\* generateSong resolves (its note list is not validated).
GenerateResolve(m) ==
    /\ isGenerating
    /\ Commit(Settle([ LoadSong(Cur, m) EXCEPT !.isGenerating = FALSE ]))

\* generateSong rejects.
GenerateReject ==
    /\ isGenerating
    /\ Commit([Cur EXCEPT !.error = TRUE,
                          !.isGenerating = FALSE])

Next ==
    \/ \E h \in 1..MaxRaf, f \in Frequencies : RafFire(h, f)
    \/ \E h \in 1..MaxRaf : RafFireIdle(h)
    \/ ClickStart
    \/ \E f \in Frequencies : StartResolve(f)
    \/ \E f \in Frequencies : StartResolveStale(f)
    \/ StartResolveStaleIdle
    \/ StartResolveStaleThrows
    \/ StartReject
    \/ ClickStop
    \/ ToggleMode
    \/ Restart
    \/ ChangeSong
    \/ SelectFile
    \/ \E m \in SongIds : FileLoaded(m)
    \/ FileRejected
    \/ ClickGenerate
    \/ \E m \in SongIds : GenerateResolve(m)
    \/ GenerateReject

Spec == Init /\ [][Next]_vars

\* ------------------------------------------------- a steadily sung session
\* The environment of a singer who always delivers the current target in
\* tune: melodies are loaded from files, the difficulty is chosen while not
\* listening, starts do not overlap, a completed melody is sung again or
\* changed, and every buffer yields a frequency with the target's pitch code
\* within the tolerance.  The browser keeps firing the scheduled frame
\* callback.
\* The frequencies of the steady singer: two within 25 cents of each pitch
\* code, so that consecutive observations may differ or be the same.
SteadyFrequencies == {6000, 6010, 6030, 6200, 6210}

SteadyFrequency(s, f) ==
    /\ InBand(f)
    /\ s.song # null
    /\ s.currentIndex < Len(Melodies[s.song])
    /\ MidiNote(f) = Target(s)
    /\ Abs(Cents(f)) <= Tolerance(s.gameMode)

LiveLoad == \E m \in SongIds : FileLoaded(m)
LiveMode == ~isListening /\ pendingLive = 0 /\ ToggleMode
LiveStart == pendingLive = 0 /\ ClickStart
LiveRestart == pendingLive = 0 /\ Restart
LiveChangeSong == completed /\ ChangeSong
LiveResolve ==
    \E f \in SteadyFrequencies : SteadyFrequency(Cur, f) /\ StartResolve(f)
LiveTick ==
    \E h \in 1..MaxRaf, f \in SteadyFrequencies :
        SteadyFrequency(Cur, f) /\ RafFire(h, f)

LiveNext ==
    \/ SelectFile
    \/ LiveLoad
    \/ LiveMode
    \/ LiveStart
    \/ LiveRestart
    \/ LiveChangeSong
    \/ LiveResolve
    \/ LiveTick

LiveSpec == Init /\ [][LiveNext]_vars /\ WF_vars(LiveTick)

\* --------------------------------------------------- autoCorrelate alone
\* autoCorrelate applied to every buffer of up to MaxBuffer samples.
Samples == {-10, 0, 5, 10}
Buffers == UNION { [1..n -> Samples] : n \in 1..MaxBuffer }
SampleRates == {44100, 48000}

appVars == << song, currentIndex, gameMode, isListening, completed,
              currentFreq, centsOff, userMidi, isGenerating, error,
              audioContextRef, analyserRef, rafIdRef, mediaStreamRef,
              matchDurationRef, rafQueue, pendingLive, pendingStale,
              leakedStreams, uploadPending, ticks >>

AutoCorrelateCall ==
    \E b \in Buffers, r \in SampleRates :
        /\ frequency = Pending
        /\ buffer' = b
        /\ sampleRate' = r
        /\ frequency' = autoCorrelate(b, r)
        /\ UNCHANGED appVars

AutoCorrelateSpec == Init /\ [][AutoCorrelateCall]_vars

\* ---------------------------------------------------- the classifier alone
\* detectPitch's classification (App.tsx 82-95) applied to NoPitch, an
\* out-of-band frequency and every pitch of MinPitch .. MaxPitch, the
\* half-way pitches 5950 and 6050 among them.
ClassifierFrequencies == {NoPitch, 3000} \cup (MinPitch..MaxPitch)

Classify ==
    \E f \in ClassifierFrequencies :
        /\ frequency = Pending
        /\ Commit(Observe(Cur, f))

ClassifierSpec == Init /\ [][Classify]_vars

\* ================================================================ claims
\* The state functions the claims speak of.
SongLoaded == song # null /\ currentIndex < Len(Melodies[song])
InSession == SongLoaded /\ isListening /\ ~completed
TargetMidi == Melodies[song][currentIndex + 1]
Advanced == currentIndex + (IF completed THEN 1 ELSE 0)
\* A frame callback fires and detectPitch's body runs on frequency f.
TickRuns(f) == \E h \in rafQueue : RafFire(h, f)
MatchingInTune(f) ==
    /\ InBand(f)
    /\ MidiNote(f) = TargetMidi
    /\ Abs(Cents(f)) <= Tolerance(gameMode)
AdvancedOnce ==
    \/ currentIndex' = currentIndex + 1 /\ ~completed'
    \/ currentIndex' = currentIndex /\ completed'
MelodyReplaced == \E m \in SongIds : FileLoaded(m) \/ GenerateResolve(m)

\* C1: in a session, every tick that delivers an observation with the
\* target's pitch code and |cents| <= tolerance raises the hold by exactly 16;
\* when the raised hold strictly exceeds the required hold the tick advances
\* exactly once and leaves the hold at 0, otherwise the index stays.
C1_HoldPerTick ==
    [][ \A f \in Frequencies :
          (InSession /\ MatchingInTune(f) /\ TickRuns(f)) =>
             IF matchDurationRef + FrameMs > RequiredHoldTime(gameMode)
             THEN AdvancedOnce /\ matchDurationRef' = 0
             ELSE /\ matchDurationRef' = matchDurationRef + FrameMs
                  /\ currentIndex' = currentIndex /\ ~completed' ]_vars

\* C2: a tick whose observation carries a pitch code other than the target's
\* never advances, never completes and never raises the hold.
C2_MismatchNeverAdvances ==
    [][ \A f \in Frequencies :
          (InSession /\ InBand(f) /\ MidiNote(f) # TargetMidi /\ TickRuns(f)) =>
             /\ currentIndex' = currentIndex
             /\ ~completed'
             /\ matchDurationRef' <= matchDurationRef ]_vars

\* C3: a tick without a pitch code (NoPitch, or a frequency outside the band)
\* in a session sets the hold to max(0, hold - 16).
C3_SilenceDecays ==
    [][ \A f \in Frequencies :
          (InSession /\ ~InBand(f) /\ TickRuns(f)) =>
             matchDurationRef' = Max(0, matchDurationRef - FrameMs) ]_vars

\* C4: the hold changes only in a tick, a restart or a melody change, and the
\* notes advanced past never exceed half the ticks of the session.
C4_OncePerTick ==
    [][ /\ matchDurationRef' # matchDurationRef =>
             \/ \E f \in Frequencies :
                  TickRuns(f) \/ StartResolve(f) \/ StartResolveStale(f)
             \/ StartResolveStaleIdle
             \/ Restart
             \/ MelodyReplaced
        /\ ticks' < MaxTicks => 2 * Advanced' <= ticks' ]_vars

\* C5: a difficulty change leaves index, hold and completed as they were.
C5_DifficultySwap ==
    [][ ToggleMode =>
          UNCHANGED << currentIndex, matchDurationRef, completed >> ]_vars

\* C6: after the melody is replaced the progression state is (0, 0, false).
C6_MelodyChangeResets ==
    [][ MelodyReplaced =>
          currentIndex' = 0 /\ matchDurationRef' = 0 /\ ~completed' ]_vars

\* C7: once completed, only a restart or a melody change alters index, hold
\* or completed.
C7_CompletedTerminal ==
    [][ (completed /\ ~Restart /\ ~MelodyReplaced) =>
          /\ completed'
          /\ currentIndex' = currentIndex
          /\ matchDurationRef' = matchDurationRef ]_vars

\* C7 witness: completed, and a start request has finished after the stop
\* of the completion (isListening is set again while completed).
C7_Witness == completed /\ isListening /\ userMidi # null

\* C8: restart leaves the progression state at (0, 0, false).
C8_RestartResets ==
    [][ Restart =>
          currentIndex' = 0 /\ matchDurationRef' = 0 /\ ~completed' ]_vars

\* C9: a session in which every tick delivers the current target in tune
\* eventually completes.
C9_SteadySingingCompletes == (isListening /\ SongLoaded) ~> completed

\* C10: while not listening (after a stop, before a later start has
\* completed) no tick executes.
C10_NoTickAfterStop ==
    [][ ~isListening => ~(\E f \in Frequencies : TickRuns(f)) ]_vars

\* A stop takes effect: stopListening runs while listening, by the Stop
\* button or by the completion of the melody.
StopTakesEffect == isListening /\ ~isListening'

\* C11: after a stop (explicit or on completion) every capture stream and
\* audio context that was acquired has been released and none is left
\* running, for every interleaving of start requests.
C11_StopReleasesAll ==
    [][ StopTakesEffect =>
          /\ ~audioContextRef'
          /\ mediaStreamRef' # "live"
          /\ leakedStreams' = 0 ]_vars

\* The setup of the only start request in flight fails: getUserMedia
\* rejects, or createMediaStreamSource throws after the stream was obtained.
SetupFails ==
    /\ ~isListening
    /\ pendingLive + pendingStale = 1
    /\ StartReject \/ StartResolveStaleThrows

\* C12: when session setup fails, the audio context and the capture stream
\* acquired so far are released, the system is not listening, no tick loop
\* runs, and a setup error is reported.
C12_SetupFailureReleases ==
    [][ SetupFails =>
          /\ error'
          /\ ~isListening'
          /\ rafQueue' = {}
          /\ ~audioContextRef'
          /\ mediaStreamRef' # "live"
          /\ leakedStreams' = 0 ]_vars

\* C13: the melody held is never an empty note sequence, whichever path
\* (file upload or generation) delivered it.
C13_NoEmptyMelody == song # null => Len(Melodies[song]) > 0

\* C14: whenever a melody is loaded 0 <= currentIndex < len(melody), and
\* while the melody stays the same currentIndex changes only by +1 or to 0.
C14_IndexInRange ==
    [][ /\ song' # null =>
             0 <= currentIndex' /\ currentIndex' < Len(Melodies[song'])
        /\ (song' = song /\ ~MelodyReplaced /\ currentIndex' # currentIndex) =>
             currentIndex' = currentIndex + 1 \/ currentIndex' = 0 ]_vars

\* C17: in every reachable state the hold is a multiple of 16 with
\* 0 <= hold <= 80.
C17_HoldBounded ==
    /\ matchDurationRef % FrameMs = 0
    /\ 0 <= matchDurationRef
    /\ matchDurationRef <= 80

\* C17 witness: the largest hold, accumulated under Hard, is still held
\* after the difficulty was changed to Easy.
C17_Witness == matchDurationRef = 80 /\ gameMode = "EASY"

\* A returned number is the sentinel -1 / is a positive finite number.
IsNoPitch(r) == r[2] # 0 /\ r[1] = NoPitch * r[2]
PositiveFinite(r) == r[2] # 0 /\ r[1] * r[2] > 0

\* C15: for every non-empty buffer and positive sample rate autoCorrelate
\* returns NoPitch or a positive finite frequency, never a negative,
\* infinite or NaN value.
C15_AutoCorrelateTotal ==
    frequency # Pending => IsNoPitch(frequency) \/ PositiveFinite(frequency)

\* The observed pitch lies exactly half-way between two pitch codes.
HalfWay == currentFreq % 100 = 50

\* C16 as stated: the tuning error of every classified pitch lies in
\* (-50, +50]; a half-way pitch gets the lower code and the error +50.
C16_CentsUpperClosed ==
    userMidi # null =>
        /\ -50 < centsOff /\ centsOff <= 50
        /\ HalfWay => userMidi = currentFreq \div 100 /\ centsOff = 50

\* C16 amended: the tuning error of every classified pitch lies in
\* [-50, +50); a half-way pitch gets the upper code and the error -50.
C16_CentsLowerClosed ==
    userMidi # null =>
        /\ -50 <= centsOff /\ centsOff < 50
        /\ HalfWay => userMidi = currentFreq \div 100 + 1 /\ centsOff = -50

\* C16 witness: the pitch half-way between 60 and 61 has been classified.
C16_Witness == currentFreq = 6050 /\ userMidi = 61 /\ centsOff = -50

====
